---- MODULE Spec2Model ----
(***************************************************************************)
(* A model of rust-search (src/main.rs): a parallel find+grep.  The main   *)
(* thread searches the seed path, a dispatcher thread drains the work      *)
(* queue, a thread pool scans file contents and a reporter thread prints   *)
(* the results.                                                            *)
(*                                                                         *)
(* Strings (paths, file contents, queries) are sequences of byte values.   *)
(* Four specifications share the module:                                   *)
(*   Spec         a whole run of the program over a small file system;     *)
(*   FairSpec     Spec with every thread scheduled fairly;                 *)
(*   MatcherSpec  the byte fold of search_file over bounded inputs;        *)
(*   LiftSpec     the function lift over bounded inputs.                   *)
(***************************************************************************)
EXTENDS Integers, Sequences, FiniteSets, TLC

VARIABLES
    \* ---- the run (Spec) ----
    fs,            \* the file system the run searches (fixed during a run)
    query,         \* the query string of the run (bytes)
    mainpc,        \* position of the initiating thread (main)
    qpc,           \* position of query_thread (the dispatcher)
    rpc,           \* position of result_thread (the reporter)
    workQueue,     \* the (PathBuf, String) channel tx -> rx
    resultChan,    \* the SearchResult channel result_sender -> result_receiver
    rxAlive,       \* the Receiver rx has not been dropped
    rrAlive,       \* the Receiver result_receiver has not been dropped
    resultSenders, \* number of live Senders of the SearchResult channel
    tasks,         \* jobs handed to thread_pool.execute, in submission order
    midCall,       \* per thread: the call of search_file it is in, between
                   \* thread_pool.execute and the name check (at most one)
    output,        \* lines written to stdout by result_thread
    errlog,        \* what error!() logged
    history,       \* ghost: every call of Search::search, with its return value
    enqueued,      \* ghost: every item ever sent on tx
    sent,          \* ghost: every SearchResult ever sent successfully
    received,      \* ghost: every SearchResult result_thread received
    \* ---- the byte fold (MatcherSpec) ----
    mBytes,        \* the mapped file bytes
    mQuery,        \* query_bytes
    mAcc,          \* the fold accumulator (num_matched, pos)
    mOut,          \* the positions of the Contents results sent so far
    mDone,         \* the fold has consumed every byte
    \* ---- lift (LiftSpec) ----
    lIn,           \* the argument of lift
    lOut,          \* its return value
    lDone          \* lift has returned

runVars == <<fs, query, mainpc, qpc, rpc, workQueue, resultChan, rxAlive,
             rrAlive, resultSenders, tasks, midCall, output, errlog,
             history, enqueued, sent, received>>
matcherVars == <<mBytes, mQuery, mAcc, mOut, mDone>>
liftVars == <<lIn, lOut, lDone>>
vars == <<runVars, matcherVars, liftVars>>

----------------------------------------------------------------------------
(* Bounds of the model. *)

\* longest byte sequence the enumerated fold inputs have
MaxBytes == 5
\* longest query the enumerated fold inputs have
MaxQuery == 2
\* longest argument of lift
MaxResults == 3
\* most injected file-system failures in one run
MaxFaults == 2

\* main.rs:49
num_workers == 16

----------------------------------------------------------------------------
(* Byte strings. *)

\* "a" = 97, "b" = 98, "x" = 120
Alphabet == {97, 98, 120}

RECURSIVE SeqsUpTo(_, _)
\* all sequences over S of length 0..n
SeqsUpTo(S, n) ==
    IF n = 0 THEN {<<>>}
    ELSE LET shorter == SeqsUpTo(S, n - 1)
         IN  shorter \cup {Append(s, x) : s \in {t \in shorter : Len(t) = n - 1}, x \in S}

Str_abc == <<97, 98, 99>>
Str_xabcabcx == <<120, 97, 98, 99, 97, 98, 99, 120>>
Str_aa == <<97, 97>>
Str_aaaa == <<97, 97, 97, 97>>
Str_ab == <<97, 98>>
Str_aabx == <<97, 97, 98, 120>>
Str_hello == <<104, 101, 108, 108, 111>>
Str_helloworldhello ==
    <<104, 101, 108, 108, 111, 119, 111, 114, 108, 100, 104, 101, 108, 108, 111>>
\* "notes.txt"
Str_notes_txt == <<110, 111, 116, 101, 115, 46, 116, 120, 116>>

\* str::ends_with
EndsWith(s, q) ==
    /\ Len(q) <= Len(s)
    /\ \A i \in 1..Len(q) : s[Len(s) - Len(q) + i] = q[i]

\* str::contains
Contains(s, q) ==
    \E k \in 0..(Len(s) - Len(q)) : \A i \in 1..Len(q) : s[k + i] = q[i]

\* a UTF-8 continuation byte, 0x80..0xBF
Continuation(b) == b >= 128 /\ b <= 191

RECURSIVE Utf8ValidFrom(_, _)
\* the bytes of s from index i on are well-formed UTF-8, as str::from_utf8
\* decides it: ASCII, or a lead byte 0xC2..0xF4 followed by its continuation
\* bytes, with no overlong form, no surrogate and nothing above U+10FFFF
Utf8ValidFrom(s, i) ==
    IF i > Len(s) THEN TRUE
    ELSE IF s[i] < 128 THEN Utf8ValidFrom(s, i + 1)
    ELSE IF s[i] >= 194 /\ s[i] <= 223
    THEN /\ i + 1 <= Len(s)
         /\ Continuation(s[i + 1])
         /\ Utf8ValidFrom(s, i + 2)
    ELSE IF s[i] >= 224 /\ s[i] <= 239
    THEN /\ i + 2 <= Len(s)
         /\ Continuation(s[i + 1])
         /\ s[i] = 224 => s[i + 1] >= 160
         /\ s[i] = 237 => s[i + 1] <= 159
         /\ Continuation(s[i + 2])
         /\ Utf8ValidFrom(s, i + 3)
    ELSE IF s[i] >= 240 /\ s[i] <= 244
    THEN /\ i + 3 <= Len(s)
         /\ Continuation(s[i + 1])
         /\ s[i] = 240 => s[i + 1] >= 144
         /\ s[i] = 244 => s[i + 1] <= 143
         /\ Continuation(s[i + 2])
         /\ Continuation(s[i + 3])
         /\ Utf8ValidFrom(s, i + 4)
    ELSE FALSE

\* the bytes are well-formed UTF-8
Utf8Valid(s) == Utf8ValidFrom(s, 1)

\* Path::to_str / OsStr::to_str: Some(the string) when the bytes are valid
\* UTF-8, None otherwise; an Option is a sequence of at most one value
to_str(path) == IF Utf8Valid(path) THEN <<path>> ELSE <<>>

\* Option::unwrap_or("")
unwrap_or_empty(opt) == IF opt = <<>> THEN <<>> ELSE opt[1]

----------------------------------------------------------------------------
(* The byte fold of search_file (main.rs:221-243).                         *)
(* The accumulator is <<num_matched, pos>>.                                *)

\* main.rs:225: the condition under which a Contents result is sent
FoldEmitsAtLast(num_matched, query_bytes) ==
    num_matched >= Len(query_bytes) - 1 /\ num_matched > 0
\* without the guard against an empty query
FoldEmitsNoGuard(num_matched, query_bytes) ==
    num_matched >= Len(query_bytes)
FoldEmits(num_matched, query_bytes) ==
    num_matched >= Len(query_bytes) /\ num_matched > 0

\* main.rs:226: the position carried by the Contents result
ContentsPosAfter(acc) == acc[2] + 1
ContentsPos(acc) == acc[2]

\* main.rs:224-232 then 235-239: match_count after the optional reset, then
\* query_bytes.get(match_count).filter(== file_byte).map(+1).unwrap_or(0)
FoldCountNoReset(num_matched, file_byte, query_bytes) ==
    LET match_count == IF FoldEmits(num_matched, query_bytes) THEN 0 ELSE num_matched
    IN  IF match_count < Len(query_bytes) /\ query_bytes[match_count + 1] = file_byte
        THEN match_count + 1
        ELSE match_count
\* on a mismatch, compares the byte with the first query byte again
FoldCountRetry(num_matched, file_byte, query_bytes) ==
    LET match_count == IF FoldEmits(num_matched, query_bytes) THEN 0 ELSE num_matched
    IN  IF match_count < Len(query_bytes) /\ query_bytes[match_count + 1] = file_byte
        THEN match_count + 1
        ELSE IF Len(query_bytes) > 0 /\ query_bytes[1] = file_byte THEN 1 ELSE 0
FoldCount(num_matched, file_byte, query_bytes) ==
    LET match_count == IF FoldEmits(num_matched, query_bytes) THEN 0 ELSE num_matched
    IN  IF match_count < Len(query_bytes) /\ query_bytes[match_count + 1] = file_byte
        THEN match_count + 1
        ELSE 0

\* one iteration of the fold closure: the new accumulator
FoldNext(acc, file_byte, query_bytes) ==
    <<FoldCount(acc[1], file_byte, query_bytes), acc[2] + 1>>

\* one iteration of the fold closure: the positions it sends (none or one)
FoldSends(acc, query_bytes) ==
    IF FoldEmits(acc[1], query_bytes) THEN <<ContentsPos(acc)>> ELSE <<>>

\* main.rs:243: the fold's final accumulator is dropped; nothing is sent
\* for a match that completes on the last byte
FoldEndFlush(acc, query_bytes) ==
    IF FoldEmits(acc[1], query_bytes) THEN <<acc[2]>> ELSE <<>>
FoldEnd(acc, query_bytes) == <<>>

RECURSIVE FoldFrom(_, _, _, _)
FoldFrom(acc, i, bytes, query_bytes) ==
    IF i > Len(bytes) THEN FoldEnd(acc, query_bytes)
    ELSE FoldSends(acc, query_bytes)
         \o FoldFrom(FoldNext(acc, bytes[i], query_bytes), i + 1, bytes, query_bytes)

\* every position the scan of `bytes` sends, in order
Matcher(bytes, query_bytes) == FoldFrom(<<0, 0>>, 1, bytes, query_bytes)

----------------------------------------------------------------------------
(* AppError, Result and lift (main.rs:92-124). *)

FileIO(msg) == [kind |-> "FileIO", msg |-> msg]
SendErr(msg) == [kind |-> "Send", msg |-> msg]
Aggregate(errs) == [kind |-> "Aggregate", errs |-> errs]

Ok(v) == [ok |-> TRUE, val |-> v]
Err(e) == [ok |-> FALSE, err |-> e]

is_ok(r) == r.ok

\* keeps the first failure only, as collect::<Result<Vec<T>, _>>() would
liftFirst(results) ==
    LET ok == SelectSeq(results, is_ok)
        err == SelectSeq(results, LAMBDA r : ~is_ok(r))
    IN  IF err = <<>>
        THEN Ok([i \in 1..Len(ok) |-> ok[i].val])
        ELSE Err(Aggregate(<<err[1].err>>))
\* main.rs:115-124
lift(results) ==
    LET ok == SelectSeq(results, is_ok)
        err == SelectSeq(results, LAMBDA r : ~is_ok(r))
    IN  IF err = <<>>
        THEN Ok([i \in 1..Len(ok) |-> ok[i].val])
        ELSE Err(Aggregate([i \in 1..Len(err) |-> err[i].err]))

----------------------------------------------------------------------------
(* Values the variables of the other specifications rest at. *)

IdleRun ==
    /\ fs = <<>> /\ query = <<>>
    /\ mainpc = "idle" /\ qpc = "idle" /\ rpc = "idle"
    /\ workQueue = <<>> /\ resultChan = <<>>
    /\ rxAlive = FALSE /\ rrAlive = FALSE /\ resultSenders = 0
    /\ tasks = <<>> /\ output = <<>> /\ errlog = <<>>
    /\ midCall = <<>>
    /\ history = <<>> /\ enqueued = <<>> /\ sent = <<>> /\ received = <<>>

IdleMatcher ==
    /\ mBytes = <<>> /\ mQuery = <<>> /\ mAcc = <<0, 0>> /\ mOut = <<>>
    /\ mDone = FALSE

IdleLift ==
    /\ lIn = <<>> /\ lOut = Ok(<<>>) /\ lDone = FALSE

----------------------------------------------------------------------------
(* MatcherSpec: the fold over every byte sequence of Alphabet up to        *)
(* MaxBytes and every query up to MaxQuery (the empty query included),     *)
(* and over the worked examples.                                           *)

MatcherExamples ==
    { <<Str_xabcabcx, Str_abc>>, <<Str_aaaa, Str_aa>>, <<Str_abc, Str_abc>>,
      <<Str_aabx, Str_ab>>, <<Str_helloworldhello, Str_hello>> }

MatcherInputs ==
    (SeqsUpTo(Alphabet, MaxBytes) \X SeqsUpTo(Alphabet, MaxQuery))
        \cup MatcherExamples

MatcherInit ==
    /\ \E in \in MatcherInputs : mBytes = in[1] /\ mQuery = in[2]
    /\ mAcc = <<0, 0>>
    /\ mOut = <<>>
    /\ mDone = FALSE
    /\ IdleRun /\ IdleLift

\* one iteration of the fold closure, on the byte at index pos
MatcherStep ==
    /\ ~mDone
    /\ mAcc[2] < Len(mBytes)
    /\ mOut' = mOut \o FoldSends(mAcc, mQuery)
    /\ mAcc' = FoldNext(mAcc, mBytes[mAcc[2] + 1], mQuery)
    /\ UNCHANGED <<mBytes, mQuery, mDone, runVars, liftVars>>

\* the iterator is exhausted: fold returns its accumulator
MatcherFinish ==
    /\ ~mDone
    /\ mAcc[2] = Len(mBytes)
    /\ mOut' = mOut \o FoldEnd(mAcc, mQuery)
    /\ mDone' = TRUE
    /\ UNCHANGED <<mBytes, mQuery, mAcc, runVars, liftVars>>

MatcherNext == MatcherStep \/ MatcherFinish

MatcherSpec == MatcherInit /\ [][MatcherNext]_vars

----------------------------------------------------------------------------
(* LiftSpec: lift over every sequence of results up to MaxResults. *)

LiftElems ==
    { Ok(1), Ok(2), Err(FileIO("e1")), Err(SendErr("e2")) }

LiftInit ==
    /\ lIn \in SeqsUpTo(LiftElems, MaxResults)
    /\ lOut = Ok(<<>>)
    /\ lDone = FALSE
    /\ IdleRun /\ IdleMatcher

LiftCall ==
    /\ ~lDone
    /\ lOut' = lift(lIn)
    /\ lDone' = TRUE
    /\ UNCHANGED <<lIn, runVars, matcherVars>>

LiftNext == LiftCall

LiftSpec == LiftInit /\ [][LiftNext]_vars

----------------------------------------------------------------------------
(* The file system a run searches.  A tree is a record of sequences        *)
(* indexed by node: kind, parent (0 for the seed), name, content (bytes    *)
(* of a file).  A file system is a tree plus fault, the failure the        *)
(* operating system answers with at one node:                              *)
(*   "metadata"  fs::metadata(path) fails                                  *)
(*   "read_dir"  fs::read_dir(path) fails                                  *)
(*   "entry"     the parent's listing yields Err for this entry and ends   *)
(*   "open"      File::open or Mmap::map fails                             *)

\* d/ { notes.txt = "helloworldhello" }
TreeNotes ==
    [ kind    |-> <<"dir", "file">>,
      parent  |-> <<0, 1>>,
      name    |-> << <<100>>, Str_notes_txt >>,
      content |-> << <<>>, Str_helloworldhello >> ]

\* r/ { ab/ { c = "xabx" }, xab = "abab" }
TreeNested ==
    [ kind    |-> <<"dir", "dir", "file", "file">>,
      parent  |-> <<0, 1, 2, 1>>,
      name    |-> << <<114>>, Str_ab, <<99>>, <<120, 97, 98>> >>,
      content |-> << <<>>, <<>>, <<120, 97, 98, 120>>, <<97, 98, 97, 98>> >> ]

\* the seed is the file ab = "abx"
TreeFile ==
    [ kind    |-> <<"file">>,
      parent  |-> <<0>>,
      name    |-> << Str_ab >>,
      content |-> << <<97, 98, 120>> >> ]

\* e/ { a = "" }: a file of length 0; the seed is given as "e/", with the
\* separator at its end
TreeEmpty ==
    [ kind    |-> <<"dir", "file">>,
      parent  |-> <<0, 1>>,
      name    |-> << <<101, 47>>, <<97>> >>,
      content |-> << <<>>, <<>> >> ]

\* "\xC3\xA9ab"/ { "\xFFab"/ { ab = "xabx" } }: the seed's name holds a
\* two-byte character, the directory below it a byte that is not UTF-8
TreeRaw ==
    [ kind    |-> <<"dir", "dir", "file">>,
      parent  |-> <<0, 1, 2>>,
      name    |-> << <<195, 169, 97, 98>>, <<255, 97, 98>>, Str_ab >>,
      content |-> << <<>>, <<>>, <<120, 97, 98, 120>> >> ]

Trees == {TreeNotes, TreeNested, TreeFile, TreeEmpty, TreeRaw}

\* "hello", "ab", "a" and the empty query
Queries == {Str_hello, Str_ab, <<97>>, <<>>}

Nodes(f) == 1..Len(f.kind)

FaultsOf(t, n) ==
    {"none", "metadata"}
        \cup (IF t.kind[n] = "dir" THEN {"read_dir"} ELSE {"open"})
        \cup (IF t.parent[n] = 0 THEN {} ELSE {"entry"})

FaultAssignments(t) ==
    { fl \in [Nodes(t) -> {"none", "metadata", "read_dir", "open", "entry"}] :
        /\ \A n \in Nodes(t) : fl[n] \in FaultsOf(t, n)
        /\ Cardinality({n \in Nodes(t) : fl[n] # "none"}) <= MaxFaults }

FileSystems ==
    UNION { { [kind |-> t.kind, parent |-> t.parent, name |-> t.name,
               content |-> t.content, fault |-> fl] : fl \in FaultAssignments(t) } :
            t \in Trees }

RECURSIVE PathOf(_, _)
\* PathBuf::join: the separator "/" (47) is put between base and name unless
\* the base is empty or already ends with one
join(base, name) ==
    IF base = <<>> \/ base[Len(base)] = 47 THEN base \o name
    ELSE base \o <<47>> \o name

\* the seed path is the seed's name, as given on the command line;
\* DirEntry::path() joins the directory's path and the entry's name
PathOf(f, n) ==
    IF f.parent[n] = 0 THEN f.name[n]
    ELSE join(PathOf(f, f.parent[n]), f.name[n])

\* the node a path names
NodeAt(f, path) == CHOOSE n \in Nodes(f) : PathOf(f, n) = path

\* the entries read_dir yields, in listing order
Children(f, n) ==
    SelectSeq([i \in 1..Len(f.kind) |-> i], LAMBDA c : f.parent[c] = n)

\* Path::file_name: the bytes after the last "/"
file_name(path) ==
    LET slashes == {i \in 1..Len(path) : path[i] = 47}
        last == IF slashes = {} THEN 0
                ELSE CHOOSE i \in slashes : \A j \in slashes : j <= i
    IN  SubSeq(path, last + 1, Len(path))

----------------------------------------------------------------------------
(* SearchResult (main.rs:106-112). *)

Contents(path, pos) == [type |-> "Contents", path |-> path, pos |-> pos]
Dir(path) == [type |-> "Dir", path |-> path]
Error(e, path, q) == [type |-> "Error", err |-> e, path |-> path, query |-> q]

Unit == <<>>

----------------------------------------------------------------------------
(* Search::search and what it calls (main.rs:177-258).  Each operator      *)
(* gives the effect of the call as a record:                               *)
(*   ret      the Result<(), AppError> returned                            *)
(*   results  the SearchResults passed to self.result_sender.send          *)
(*   items    the paths passed to self.tx.send that were accepted          *)
(*   submit   the paths handed to thread_pool.execute                      *)
(*   returned the call has returned; FALSE when it is still to make the    *)
(*            name check of search_file (main.rs:254-257), which a job of   *)
(*            the pool can overtake                                        *)
(* A send fails exactly when the channel's Receiver has been dropped.      *)

\* main.rs:186-189
matadata(path) ==
    IF fs.fault[NodeAt(fs, path)] = "metadata"
    THEN Err(FileIO("metadata"))
    ELSE Ok(fs.kind[NodeAt(fs, path)])

\* main.rs:201-204: one entry of the listing, read and sent on tx
EntryResult(c) ==
    IF fs.fault[c] = "entry" THEN Err(FileIO("entry"))
    ELSE IF rxAlive THEN Ok(Unit)
    ELSE Err(SendErr("tx"))

\* the file predicate applied to a directory path
DirNameMatchContains(path, q) ==
    to_str(path) # <<>> /\ Contains(to_str(path)[1], q)
\* main.rs:192-194: the directory's name match
\* (a path that is not UTF-8 has no string and no match)
DirNameMatch(path, q) ==
    to_str(path) # <<>> /\ EndsWith(to_str(path)[1], q)

\* main.rs:199-200: the entries the ReadDir iterator yields, in listing
\* order.  The iterator ends after the first entry whose read fails: that
\* entry is its last item, the entries listed after it are never read.
Listing(n) ==
    LET entries == Children(fs, n)
        failed == {i \in 1..Len(entries) : fs.fault[entries[i]] = "entry"}
        last == IF failed = {} THEN Len(entries)
                ELSE CHOOSE i \in failed : \A j \in failed : i <= j
    IN  SubSeq(entries, 1, last)

\* main.rs:191-208
search_dir(path, q) ==
    LET n == NodeAt(fs, path)
        nameMatch == IF DirNameMatch(path, q) THEN <<Dir(to_str(path)[1])>>
                     ELSE <<>>
        entries == Listing(n)
        sends == [i \in 1..Len(entries) |-> EntryResult(entries[i])]
        accepted == SelectSeq(entries, LAMBDA c : is_ok(EntryResult(c)))
        lifted == lift(sends)
    IN  IF fs.fault[n] = "read_dir"
        THEN [ret |-> Err(FileIO("read_dir")), results |-> nameMatch,
              items |-> <<>>, submit |-> <<>>, returned |-> TRUE]
        ELSE [ret |-> IF is_ok(lifted) THEN Ok(Unit) ELSE lifted,
              results |-> nameMatch,
              items |-> [i \in 1..Len(accepted) |-> PathOf(fs, accepted[i])],
              submit |-> <<>>, returned |-> TRUE]

\* main.rs:254-255: the file's name match
\* (a path that is not UTF-8 has no match; a base name that is not UTF-8
\* counts as "")
FileNameMatch(path, q) ==
    /\ to_str(path) # <<>>
    /\ Contains(unwrap_or_empty(to_str(file_name(path))), q)

\* main.rs:254-257: the end of search_file: the name is checked and Dir is
\* sent, after the job was handed to the pool
search_fileName(path, q) ==
    LET nameMatch == IF FileNameMatch(path, q) THEN <<Dir(to_str(path)[1])>>
                     ELSE <<>>
    IN  [ret |-> IF nameMatch # <<>> /\ ~rrAlive
                 THEN Err(SendErr("result_sender"))
                 ELSE Ok(Unit),
         results |-> nameMatch]

\* checks the name first and skips the scan of a file whose name matched
search_fileNameFirst(path, q) ==
    [ret |-> search_fileName(path, q).ret,
     results |-> search_fileName(path, q).results,
     items |-> <<>>,
     submit |-> IF search_fileName(path, q).results # <<>> THEN <<>> ELSE <<path>>,
     returned |-> TRUE]
\* main.rs:212-252: the job is handed to the pool; the call goes on with the
\* name check (search_fileName)
search_file(path, q) ==
    [ret |-> Ok(Unit), results |-> <<>>, items |-> <<>>, submit |-> <<path>>,
     returned |-> FALSE]

\* main.rs:177-184
search(path, q) ==
    LET meta == matadata(path)
    IN  IF ~is_ok(meta)
        THEN [ret |-> meta, results |-> <<>>, items |-> <<>>, submit |-> <<>>,
              returned |-> TRUE]
        ELSE IF meta.val = "dir" THEN search_dir(path, q)
        ELSE search_file(path, q)

\* a job of the pool as submitted (main.rs:213-218): it owns a clone of
\* result_sender
NewTask(path, q) ==
    [path |-> path, query |-> q, pc |-> "queued", acc |-> <<0, 0>>]

\* the state change of one call of search by thread `by`, up to its return
\* or, for a file, up to the point where the job has been handed to the pool;
\* dropped is the number of senders the caller drops on the return
DoSearch(by, path, q, queue, dropped) ==
    LET eff == search(path, q)
        delivered == IF rrAlive THEN eff.results ELSE <<>>
    IN  /\ resultChan' = resultChan \o delivered
        /\ sent' = sent \o delivered
        /\ workQueue' = queue \o [i \in 1..Len(eff.items) |->
                                    [path |-> eff.items[i], query |-> q]]
        /\ enqueued' = enqueued \o eff.items
        /\ tasks' = tasks \o [i \in 1..Len(eff.submit) |-> NewTask(eff.submit[i], q)]
        /\ resultSenders' = resultSenders + Len(eff.submit) - dropped
        /\ IF eff.returned
           THEN /\ history' = Append(history, [by |-> by, path |-> path, ret |-> eff.ret])
                /\ midCall' = midCall
           ELSE /\ history' = history
                /\ midCall' = [midCall EXCEPT ![by] = <<[path |-> path, query |-> q]>>]

\* the rest of the call of search_file thread `by` is in: the name check,
\* the send of Dir and the return
DoNameMatch(by) ==
    LET call == midCall[by][1]
        eff == search_fileName(call.path, call.query)
        delivered == IF rrAlive THEN eff.results ELSE <<>>
    IN  /\ resultChan' = resultChan \o delivered
        /\ sent' = sent \o delivered
        /\ history' = Append(history, [by |-> by, path |-> call.path, ret |-> eff.ret])
        /\ midCall' = [midCall EXCEPT ![by] = <<>>]

----------------------------------------------------------------------------
(* Spec: one run of the program. *)

\* the path given on the command line
SeedPath == PathOf(fs, 1)

Init ==
    /\ fs \in FileSystems
    /\ query \in Queries
    /\ mainpc = "search"
    /\ qpc = "unspawned"
    /\ rpc = "unspawned"
    /\ workQueue = <<>>
    /\ resultChan = <<>>
    /\ rxAlive = TRUE
    /\ rrAlive = TRUE
    /\ resultSenders = 1
    /\ tasks = <<>>
    /\ midCall = [main |-> <<>>, query_thread |-> <<>>]
    /\ output = <<>>
    /\ errlog = <<>>
    /\ history = <<>>
    /\ enqueued = <<>>
    /\ sent = <<>>
    /\ received = <<>>
    /\ IdleMatcher /\ IdleLift

\* process::exit(1) has not been called
Running == mainpc \notin {"idle", "exit"}

\* main.rs:59-64: what main does with the Result of the seed's search.  Ok:
\* process_queries is called.  Err is "Unrecoverable": Result::map drops
\* its closure unused, and with it search (tx, result_sender, thread_pool),
\* rx and result_receiver; then the error is logged and the process exits
\* with status 1.
SeedReturn(ret) ==
    IF is_ok(ret)
    THEN /\ mainpc' = "process_queries"
         /\ errlog' = errlog
         /\ UNCHANGED <<rxAlive, rrAlive>>
    ELSE /\ mainpc' = "exit"
         /\ errlog' = Append(errlog, [what |-> "Unrecoverable error", err |-> ret.err])
         /\ rxAlive' = FALSE
         /\ rrAlive' = FALSE

\* the result_sender of search is dropped when the seed's search fails
SeedDrops(ret) == IF is_ok(ret) THEN 0 ELSE 1

\* main.rs:55-64: main searches the seed path itself
MainSearch ==
    /\ mainpc = "search"
    /\ LET eff == search(SeedPath, query)
       IN  IF ~eff.returned
           THEN /\ DoSearch("main", SeedPath, query, workQueue, 0)
                /\ mainpc' = "name_match"
                /\ UNCHANGED <<errlog, rxAlive, rrAlive>>
           ELSE /\ DoSearch("main", SeedPath, query, workQueue, SeedDrops(eff.ret))
                /\ SeedReturn(eff.ret)
    /\ UNCHANGED <<fs, query, qpc, rpc, output, received, matcherVars, liftVars>>

\* main.rs:254-257, 58-64: the seed is a file: main ends its call of
\* search_file with the name check, after the pool was given the job
MainNameMatch ==
    /\ mainpc = "name_match"
    /\ DoNameMatch("main")
    /\ SeedReturn(search_fileName(SeedPath, query).ret)
    /\ resultSenders' = resultSenders - SeedDrops(search_fileName(SeedPath, query).ret)
    /\ UNCHANGED <<fs, query, qpc, rpc, workQueue, tasks, output, enqueued,
                   received, matcherVars, liftVars>>

\* main.rs:137, 148: the two threads are spawned; search, rx and
\* result_receiver move into them
MainSpawn ==
    /\ mainpc = "process_queries"
    /\ mainpc' = "join_query"
    /\ qpc' = "try_recv"
    /\ rpc' = "recv"
    /\ UNCHANGED <<fs, query, workQueue, resultChan, rxAlive, rrAlive,
                   resultSenders, tasks, midCall, output, errlog, history, enqueued,
                   sent, received, matcherVars, liftVars>>

\* main.rs:172
MainJoinQuery ==
    /\ mainpc = "join_query"
    /\ qpc = "done"
    /\ mainpc' = "join_result"
    /\ UNCHANGED <<fs, query, qpc, rpc, workQueue, resultChan, rxAlive, rrAlive,
                   resultSenders, tasks, midCall, output, errlog, history, enqueued,
                   sent, received, matcherVars, liftVars>>

\* main.rs:174
MainJoinResult ==
    /\ mainpc = "join_result"
    /\ rpc = "done"
    /\ mainpc' = "done"
    /\ UNCHANGED <<fs, query, qpc, rpc, workQueue, resultChan, rxAlive, rrAlive,
                   resultSenders, tasks, midCall, output, errlog, history, enqueued,
                   sent, received, matcherVars, liftVars>>

\* leaves the loop at the first item whose search fails
AfterSearchStop(ret) == IF is_ok(ret) THEN "try_recv" ELSE "pool_join"
\* main.rs:140-142: the Result search returns is dropped by the closure of
\* next_query.map, and the loop polls the queue again
AfterSearch(ret) == "try_recv"

\* main.rs:138-143: try_recv yields an item and search is called on it
Dispatch ==
    /\ Running
    /\ qpc = "try_recv"
    /\ workQueue # <<>>
    /\ DoSearch("query_thread", Head(workQueue).path, Head(workQueue).query,
                Tail(workQueue), 0)
    /\ LET eff == search(Head(workQueue).path, Head(workQueue).query)
       IN  qpc' = IF eff.returned THEN AfterSearch(eff.ret) ELSE "name_match"
    /\ UNCHANGED <<fs, query, mainpc, rpc, rxAlive, rrAlive, output,
                   errlog, received, matcherVars, liftVars>>

\* main.rs:254-257, 140-142: the item is a file: the dispatcher ends its call
\* of search_file with the name check, after the pool was given the job
DispatchNameMatch ==
    /\ Running
    /\ qpc = "name_match"
    /\ DoNameMatch("query_thread")
    /\ qpc' = AfterSearch(search_fileName(midCall["query_thread"][1].path,
                                          midCall["query_thread"][1].query).ret)
    /\ UNCHANGED <<fs, query, mainpc, rpc, workQueue, rxAlive, rrAlive,
                   resultSenders, tasks, output, errlog, enqueued, received,
                   matcherVars, liftVars>>

\* main.rs:139: try_recv yields Err (the queue is empty): the loop ends
QueueEmpty ==
    /\ Running
    /\ qpc = "try_recv"
    /\ workQueue = <<>>
    /\ qpc' = "pool_join"
    /\ UNCHANGED <<fs, query, mainpc, rpc, workQueue, resultChan, rxAlive,
                   rrAlive, resultSenders, tasks, midCall, output, errlog, history,
                   enqueued, sent, received, matcherVars, liftVars>>

\* waits only until every job has been taken by a worker
PoolIdleNoneQueued == \A i \in 1..Len(tasks) : tasks[i].pc # "queued"
\* main.rs:145: ThreadPool::join returns once no job is queued or running
PoolIdle == \A i \in 1..Len(tasks) : tasks[i].pc = "done"

\* search is kept alive, and its result_sender with it
SendersAfterJoinKept(n) == n
\* main.rs:146: the closure ends and drops search, and with it the
\* result_sender it owns
SendersAfterJoin(n) == n - 1

\* main.rs:145-146: thread_pool.join() returns once no job is queued or
\* running; the closure then ends and drops search (tx, result_sender,
\* thread_pool) and rx
PoolJoin ==
    /\ Running
    /\ qpc = "pool_join"
    /\ PoolIdle
    /\ qpc' = "done"
    /\ resultSenders' = SendersAfterJoin(resultSenders)
    /\ rxAlive' = FALSE
    /\ UNCHANGED <<fs, query, mainpc, rpc, workQueue, resultChan, rrAlive,
                   tasks, midCall, output, errlog, history, enqueued, sent, received,
                   matcherVars, liftVars>>

----------------------------------------------------------------------------
(* The jobs of the thread pool (main.rs:218-252). *)

\* sender.send(result).or_else(send Error(Send ..)): with the Receiver
\* gone both sends fail and the failure is only logged
TaskSend(results) ==
    IF rrAlive
    THEN /\ resultChan' = resultChan \o results
         /\ sent' = sent \o results
         /\ errlog' = errlog
    ELSE /\ UNCHANGED <<resultChan, sent>>
         /\ errlog' = errlog \o [i \in 1..Len(results) |->
                                   [what |-> "Could not handle", result |-> results[i]]]

\* main.rs:226: the path a Contents result names: "" when the path is not
\* UTF-8
ContentsPath(path) == unwrap_or_empty(to_str(path))

\* a worker is free when fewer than num_workers jobs are running
WorkerFree ==
    Cardinality({j \in 1..Len(tasks) : tasks[j].pc \in {"open", "fold"}}) < num_workers

\* main.rs:219-220: File::open, then Mmap::map, which fails for a file of
\* length 0 (mmap of no bytes is an error)
OpenAndMap(path) ==
    LET n == NodeAt(fs, path)
    IN  IF fs.fault[n] = "open" THEN Err(FileIO("open"))
        ELSE IF Len(fs.content[n]) = 0 THEN Err(FileIO("map"))
        ELSE Ok(fs.content[n])

\* drops the failure as the dispatcher drops the failures of search
TaskFailureSilent(t) == <<>>
\* main.rs:244-251: what a job whose open or map failed sends
TaskFailure(t) == <<Error(OpenAndMap(t.path).err, t.path, t.query)>>

\* threadpool: a free worker takes the oldest queued job and starts to run
\* its closure (main.rs:218)
TaskRun(i) ==
    /\ Running
    /\ tasks[i].pc = "queued"
    /\ \A j \in 1..(i - 1) : tasks[j].pc # "queued"
    /\ WorkerFree
    /\ tasks' = [tasks EXCEPT ![i].pc = "open"]
    /\ UNCHANGED <<fs, query, mainpc, qpc, rpc, workQueue, resultChan, rxAlive,
                   rrAlive, resultSenders, midCall, output, errlog, history,
                   enqueued, sent, received, matcherVars, liftVars>>

\* main.rs:219-220, 244-251: the job opens and maps its file.  When either
\* fails the fold is skipped and the job sends Error(FileIO, (path, query))
\* and ends, dropping its sender.
TaskOpen(i) ==
    /\ Running
    /\ tasks[i].pc = "open"
    /\ IF ~is_ok(OpenAndMap(tasks[i].path))
       THEN /\ TaskSend(TaskFailure(tasks[i]))
            /\ tasks' = [tasks EXCEPT ![i].pc = "done"]
            /\ resultSenders' = resultSenders - 1
       ELSE /\ tasks' = [tasks EXCEPT ![i].pc = "fold"]
            /\ UNCHANGED <<resultChan, sent, errlog, resultSenders>>
    /\ UNCHANGED <<fs, query, mainpc, qpc, rpc, workQueue, rxAlive, rrAlive,
                   midCall, output, history, enqueued, received, matcherVars,
                   liftVars>>

\* one iteration of the fold closure (main.rs:223-242)
TaskFold(i) ==
    /\ Running
    /\ tasks[i].pc = "fold"
    /\ LET t == tasks[i]
           bytes == fs.content[NodeAt(fs, t.path)]
           positions == FoldSends(t.acc, t.query)
       IN  /\ t.acc[2] < Len(bytes)
           /\ TaskSend([k \in 1..Len(positions) |-> Contents(ContentsPath(t.path), positions[k])])
           /\ tasks' = [tasks EXCEPT ![i].acc = FoldNext(t.acc, bytes[t.acc[2] + 1], t.query)]
    /\ UNCHANGED <<fs, query, mainpc, qpc, rpc, workQueue, rxAlive, rrAlive,
                   resultSenders, midCall, output, history, enqueued, received,
                   matcherVars, liftVars>>

\* the fold has consumed every byte: the job ends and drops its sender
TaskEnd(i) ==
    /\ Running
    /\ tasks[i].pc = "fold"
    /\ LET t == tasks[i]
           bytes == fs.content[NodeAt(fs, t.path)]
           positions == FoldEnd(t.acc, t.query)
       IN  /\ t.acc[2] = Len(bytes)
           /\ TaskSend([k \in 1..Len(positions) |-> Contents(ContentsPath(t.path), positions[k])])
    /\ tasks' = [tasks EXCEPT ![i].pc = "done"]
    /\ resultSenders' = resultSenders - 1
    /\ UNCHANGED <<fs, query, mainpc, qpc, rpc, workQueue, rxAlive, rrAlive,
                   midCall, output, history, enqueued, received, matcherVars, liftVars>>

----------------------------------------------------------------------------
(* result_thread (main.rs:148-168). *)

RECURSIVE Decimal(_)
\* the digits "{}" prints for a usize
Decimal(n) ==
    IF n < 10 THEN <<48 + n>>
    ELSE Append(Decimal(n \div 10), 48 + (n % 10))

\* writes "{}:{}" for a Contents result
LineOfOneColon(r) ==
    IF r.type = "Contents" THEN r.path \o <<58>> \o Decimal(r.pos) \o <<10>>
    ELSE r.path \o <<10>>
\* main.rs:154-156: the line written for a result ("::" is 58 58, "\n" 10)
LineOf(r) ==
    IF r.type = "Contents" THEN r.path \o <<58, 58>> \o Decimal(r.pos) \o <<10>>
    ELSE r.path \o <<10>>

\* writes a line for an Error result too
WrittenAlways(r) == <<LineOf(r)>>
\* main.rs:153-161: what writer.write_fmt is given for a result: one line
\* for a match, nothing for an Error
Written(r) == IF r.type = "Error" THEN <<>> ELSE <<LineOf(r)>>

\* main.rs:150-165: recv yields a result; matches are written, errors logged
ReportRecv ==
    /\ Running
    /\ rpc = "recv"
    /\ resultChan # <<>>
    /\ LET r == Head(resultChan)
       IN  /\ resultChan' = Tail(resultChan)
           /\ received' = Append(received, r)
           /\ IF r.type = "Error"
              THEN errlog' = Append(errlog, [what |-> "Error while searching", result |-> r])
              ELSE errlog' = errlog
           /\ output' = output \o Written(r)
    /\ UNCHANGED <<fs, query, mainpc, qpc, rpc, workQueue, rxAlive, rrAlive, midCall,
                   resultSenders, tasks, history, enqueued, sent,
                   matcherVars, liftVars>>

\* the last sender is gone
NoSenderLeftEarly == resultSenders <= 1
NoSenderLeft == resultSenders = 0

\* main.rs:151, 167-168: recv yields Err once the channel is empty and every
\* Sender has been dropped; the thread flushes and ends, dropping
\* result_receiver
ReportClose ==
    /\ Running
    /\ rpc = "recv"
    /\ resultChan = <<>>
    /\ NoSenderLeft
    /\ rpc' = "done"
    /\ rrAlive' = FALSE
    /\ UNCHANGED <<fs, query, mainpc, qpc, workQueue, resultChan, rxAlive,
                   resultSenders, tasks, midCall, output, errlog, history, enqueued,
                   sent, received, matcherVars, liftVars>>

Next ==
    \/ MainSearch
    \/ MainNameMatch
    \/ MainSpawn
    \/ MainJoinQuery
    \/ MainJoinResult
    \/ Dispatch
    \/ DispatchNameMatch
    \/ QueueEmpty
    \/ PoolJoin
    \/ \E i \in 1..Len(tasks) : TaskRun(i)
    \/ \E i \in 1..Len(tasks) : TaskOpen(i)
    \/ \E i \in 1..Len(tasks) : TaskFold(i)
    \/ \E i \in 1..Len(tasks) : TaskEnd(i)
    \/ ReportRecv
    \/ ReportClose

Spec == Init /\ [][Next]_vars

\* Every thread that can take a step is eventually scheduled: main, the
\* dispatcher, the reporter and the workers of the pool are operating-system
\* threads; none of them waits on anything but the conditions in the guards.
Fairness ==
    /\ WF_vars(MainSearch)
    /\ WF_vars(MainNameMatch)
    /\ WF_vars(MainSpawn)
    /\ WF_vars(MainJoinQuery)
    /\ WF_vars(MainJoinResult)
    /\ WF_vars(Dispatch)
    /\ WF_vars(DispatchNameMatch)
    /\ WF_vars(QueueEmpty)
    /\ WF_vars(PoolJoin)
    /\ WF_vars(\E i \in 1..Len(tasks) : TaskRun(i))
    /\ WF_vars(\E i \in 1..Len(tasks) : TaskOpen(i))
    /\ WF_vars(\E i \in 1..Len(tasks) : TaskFold(i))
    /\ WF_vars(\E i \in 1..Len(tasks) : TaskEnd(i))
    /\ WF_vars(ReportRecv)
    /\ WF_vars(ReportClose)

FairSpec == Spec /\ Fairness

----------------------------------------------------------------------------
(* Properties. *)

\* the indexes of seq whose element satisfies P
Where(seq, P(_)) == {i \in 1..Len(seq) : P(seq[i])}

NoFaults == \A n \in Nodes(fs) : fs.fault[n] = "none"

\* every metadata query and every directory listing succeeds (opening a
\* file may still fail)
TraversalSucceeds == \A n \in Nodes(fs) : fs.fault[n] \in {"none", "open"}

\* C1: every item enqueued on the work queue is, by the end of the run,
\* expanded or submitted for scanning (its search returned Ok) or reported by
\* an Error result naming it; in particular an item whose metadata query or
\* directory listing fails in the dispatcher gets an Error result.
C1_NoSilentDrop ==
    mainpc = "done" =>
        \A k \in 1..Len(enqueued) :
            \/ \E h \in 1..Len(history) :
                   /\ history[h].by = "query_thread"
                   /\ history[h].path = enqueued[k]
                   /\ is_ok(history[h].ret)
            \/ \E r \in 1..Len(received) :
                   /\ received[r].type = "Error"
                   /\ received[r].path = enqueued[k]

\* C2: for a non-empty query, every position k the fold sends has the query
\* in the bytes [k - len, k), and the positions of one scan strictly increase.
C2_OffsetsEndMatches ==
    Len(mQuery) > 0 =>
        /\ \A j \in 1..Len(mOut) :
               /\ mOut[j] >= Len(mQuery)
               /\ mOut[j] <= Len(mBytes)
               /\ SubSeq(mBytes, mOut[j] - Len(mQuery) + 1, mOut[j]) = mQuery
        /\ \A j \in 1..(Len(mOut) - 1) : mOut[j] < mOut[j + 1]

C2_Witness ==
    /\ mDone
    /\ Len(mQuery) = 2
    /\ Len(mOut) = 2

\* C3 (as amended): the scan of "xabcabcx" for "abc" sends exactly the
\* positions 4 and 7.
C3_Example ==
    (mDone /\ mBytes = Str_xabcabcx /\ mQuery = Str_abc) => mOut = <<4, 7>>

C3_Witness ==
    mDone /\ mBytes = Str_xabcabcx /\ mQuery = Str_abc /\ Len(mOut) = 2

\* C3 as claimed: the scan of "xabcabcx" for "abc" sends exactly 4 and 8.
C3_Original ==
    (mDone /\ mBytes = Str_xabcabcx /\ mQuery = Str_abc) => mOut = <<4, 8>>

\* C4 (as amended): the scan of "aaaa" for "aa" sends exactly one position,
\* and it is 2.
C4_NonOverlap ==
    (mDone /\ mBytes = Str_aaaa /\ mQuery = Str_aa) => mOut = <<2>>

C4_Witness ==
    mDone /\ mBytes = Str_aaaa /\ mQuery = Str_aa /\ Len(mOut) = 1

\* C4 as claimed: the scan of "aaaa" for "aa" sends exactly one position,
\* and it is 3.
C4_Original ==
    (mDone /\ mBytes = Str_aaaa /\ mQuery = Str_aa) => mOut = <<3>>

\* C5: for a non-empty query no position sent reaches the length of the
\* bytes (a match ending on the last byte is never sent), and the scan of
\* bytes equal to the query sends nothing.
C5_NoMatchAtEnd ==
    Len(mQuery) > 0 =>
        /\ \A j \in 1..Len(mOut) : mOut[j] < Len(mBytes)
        /\ mBytes = mQuery => mOut = <<>>

\* the fold has ended with the query matched on the last bytes
C5_Witness ==
    /\ mDone
    /\ Len(mQuery) > 0
    /\ Len(mBytes) > Len(mQuery)
    /\ SubSeq(mBytes, Len(mBytes) - Len(mQuery) + 1, Len(mBytes)) = mQuery
    /\ mAcc[1] = Len(mQuery)

\* the run over d/notes.txt = "helloworldhello" with the query "hello"
EndToEnd ==
    /\ fs.name = TreeNotes.name
    /\ NoFaults
    /\ query = Str_hello

\* "d/notes.txt"
NotesPath == <<100, 47>> \o Str_notes_txt

\* C6 (as amended): the end-to-end run prints exactly one line,
\* "d/notes.txt::5": the Contents result of the first "hello" (position 5);
\* none is reported for the second, which ends on the last byte of the file.
C6_EndToEnd ==
    (EndToEnd /\ mainpc = "done") =>
        /\ output = << NotesPath \o <<58, 58, 53, 10>> >>
        /\ received = << Contents(NotesPath, 5) >>

C6_Witness ==
    EndToEnd /\ mainpc = "done" /\ Len(output) = 1

\* C6 as claimed: the end-to-end run reports a Contents result for notes.txt
\* at position 15.
C6_Original ==
    (EndToEnd /\ mainpc = "done") =>
        \E r \in 1..Len(received) : received[r] = Contents(NotesPath, 15)

\* C7: when no metadata query and no listing fails, no path is searched twice
\* and no file is submitted twice, and a completed run has searched every
\* node once: one job per file (finished), none for a directory, and every
\* child of every directory enqueued once.
C7_EachNodeOnce ==
    TraversalSucceeds =>
        \A n \in Nodes(fs) :
            LET p == PathOf(fs, n)
                searches == Where(history, LAMBDA h : h.path = p)
                jobs == Where(tasks, LAMBDA t : t.path = p)
                sends == Where(enqueued, LAMBDA e : e = p)
            IN  /\ Cardinality(searches) <= 1
                /\ Cardinality(jobs) <= 1
                /\ Cardinality(sends) <= 1
                /\ mainpc = "done" =>
                       /\ Cardinality(searches) = 1
                       /\ \A h \in searches : is_ok(history[h].ret)
                       /\ Cardinality(jobs) = (IF fs.kind[n] = "file" THEN 1 ELSE 0)
                       /\ \A j \in jobs : tasks[j].pc = "done"
                       /\ Cardinality(sends) = (IF fs.parent[n] = 0 THEN 0 ELSE 1)

C7_Witness ==
    /\ TraversalSucceeds
    /\ mainpc = "done"
    /\ Len(fs.kind) = 4
    /\ Len(tasks) = 2
    /\ Len(history) = 4

\* C8: every result passed to the channel is received once, in order; the
\* reporter returns only when the dispatcher has dropped its sender after
\* joining the pool and every job has ended and dropped its own, so that
\* nothing sent is left unreceived and no send was refused.
C8_ReporterOutlivesSenders ==
    /\ sent = received \o resultChan
    /\ rpc = "done" =>
           /\ resultSenders = 0
           /\ qpc = "done"
           /\ \A i \in 1..Len(tasks) : tasks[i].pc = "done"
           /\ received = sent
           /\ \A e \in 1..Len(errlog) : errlog[e].what # "Could not handle"

\* the reporter has returned after receiving the results of the dispatcher
\* and of two jobs
C8_Witness ==
    /\ rpc = "done"
    /\ Len(tasks) = 2
    /\ \E i, j, k \in 1..Len(received) :
           /\ received[i].type = "Dir"
           /\ received[j].type = "Contents"
           /\ received[k].type = "Contents"
           /\ received[j].path # received[k].path

\* the seed's own search, made by main, failed
SeedFailed ==
    /\ Len(history) = 1
    /\ history[1].by = "main"
    /\ ~is_ok(history[1].ret)

\* C9 (as amended): a failure of an item popped by the dispatcher never stops
\* the run: every enqueued item is still searched, the pool is joined and the
\* reporter returns.  Only a failure of the seed's own search, which main
\* makes before the dispatcher exists, stops the run: the process exits
\* with status 1 and nothing enqueued is dispatched.
C9_OnlySeedFailureStops ==
    /\ mainpc = "exit" <=> (SeedFailed /\ qpc = "unspawned")
    /\ (qpc = "try_recv" /\ workQueue # <<>>) => ENABLED Dispatch
    /\ mainpc = "done" =>
           /\ workQueue = <<>>
           /\ \A k \in 1..Len(enqueued) :
                  \E h \in 1..Len(history) :
                      history[h].by = "query_thread" /\ history[h].path = enqueued[k]
           /\ \A i \in 1..Len(tasks) : tasks[i].pc = "done"
           /\ rpc = "done"

\* a completed run in which a search failed in the dispatcher and another
\* item was searched after it
C9_Witness ==
    /\ mainpc = "done"
    /\ \E h \in 1..Len(history) :
           /\ history[h].by = "query_thread"
           /\ ~is_ok(history[h].ret)
           /\ h < Len(history)

\* C9 as claimed: no FileIO, Send or Aggregate failure, the seed's included,
\* stops the run: whenever main has finished, the queue has been drained, the
\* pool joined and the reporter has returned.
C9_Original ==
    mainpc \in {"exit", "done"} =>
        /\ workQueue = <<>>
        /\ qpc = "done"
        /\ rpc = "done"

\* the failing indexes of lIn up to i
FailuresUpTo(i) == {j \in 1..i : ~lIn[j].ok}

\* C10: lift returns Ok of the success values in order when every result is a
\* success; otherwise Err(Aggregate(L)) with L exactly the failures in their
\* original order, and no success value.
C10_Lift ==
    lDone =>
        IF FailuresUpTo(Len(lIn)) = {}
        THEN /\ lOut.ok
             /\ DOMAIN lOut = {"ok", "val"}
             /\ Len(lOut.val) = Len(lIn)
             /\ \A i \in 1..Len(lIn) : lOut.val[i] = lIn[i].val
        ELSE /\ ~lOut.ok
             /\ DOMAIN lOut = {"ok", "err"}
             /\ lOut.err.kind = "Aggregate"
             /\ Len(lOut.err.errs) = Cardinality(FailuresUpTo(Len(lIn)))
             /\ \A i \in FailuresUpTo(Len(lIn)) :
                    lOut.err.errs[Cardinality(FailuresUpTo(i))] = lIn[i].err

\* three results, a success between two different failures
C10_Witness ==
    /\ lDone
    /\ Len(lIn) = 3
    /\ ~lIn[1].ok /\ lIn[2].ok /\ ~lIn[3].ok
    /\ lIn[1] # lIn[3]

\* the Dir results sent so far for path p
DirResults(p) == Where(sent, LAMBDA r : r.type = "Dir" /\ r.path = p)

\* search has been called on path p
Searched(p) == \E h \in 1..Len(history) : history[h].path = p

\* C11 (as amended): a searched directory (its metadata read) has a Dir
\* result exactly when its full path is valid UTF-8 and ends with the query;
\* a searched file has one exactly when its full path is valid UTF-8 and its
\* base name contains the query, sent by the searching thread itself before
\* its call returns, whatever becomes of the file's job.  A path that is not
\* valid UTF-8 has none.
C11_NameMatch ==
    \A n \in Nodes(fs) :
        LET p == PathOf(fs, n)
            expected ==
                /\ Searched(p)
                /\ fs.fault[n] # "metadata"
                /\ Utf8Valid(p)
                /\ IF fs.kind[n] = "dir"
                   THEN EndsWith(p, query)
                   ELSE Contains(fs.name[n], query)
        IN  Cardinality(DirResults(p)) = (IF expected THEN 1 ELSE 0)

\* C11 as claimed: a searched directory has a Dir result exactly when its
\* full path ends with the query, a searched file exactly when its base name
\* contains the query.
C11_Original ==
    \A n \in Nodes(fs) :
        LET p == PathOf(fs, n)
            expected ==
                /\ Searched(p)
                /\ fs.fault[n] # "metadata"
                /\ IF fs.kind[n] = "dir"
                   THEN EndsWith(p, query)
                   ELSE Contains(fs.name[n], query)
        IN  Cardinality(DirResults(p)) = (IF expected THEN 1 ELSE 0)

\* a file whose open failed has its name match received after the Error of
\* its job, which overtook the searching thread; a directory whose path holds
\* the query without ending with it has none
C11_Witness ==
    /\ mainpc = "done"
    /\ \E i, j \in 1..Len(received) :
           /\ j < i
           /\ received[i].type = "Dir"
           /\ received[j].type = "Error"
           /\ received[i].path = received[j].path
    /\ \E n \in Nodes(fs) :
           /\ fs.kind[n] = "dir"
           /\ Searched(PathOf(fs, n))
           /\ Contains(PathOf(fs, n), query)
           /\ ~EndsWith(PathOf(fs, n), query)
           /\ DirResults(PathOf(fs, n)) = {}

\* the matches received so far, in order
MatchesReceived == SelectSeq(received, LAMBDA r : r.type # "Error")

\* C12: stdout holds exactly one line for each Contents and Dir result
\* received, in the order received, and none for an Error result, which is
\* logged instead; while results are waiting the reporter goes on receiving,
\* whatever it received before.
C12_OneLinePerMatch ==
    /\ Len(output) = Len(MatchesReceived)
    /\ \A k \in 1..Len(MatchesReceived) : output[k] = LineOf(MatchesReceived[k])
    /\ Cardinality(Where(errlog, LAMBDA e : e.what = "Error while searching"))
           = Len(received) - Len(MatchesReceived)
    /\ (rpc = "recv" /\ resultChan # <<>>) => ENABLED ReportRecv

\* the reporter has returned after an Error followed by two matches
C12_Witness ==
    /\ rpc = "done"
    /\ \E i, j, k \in 1..Len(received) :
           /\ i < j /\ j < k
           /\ received[i].type = "Error"
           /\ received[j].type = "Contents"
           /\ received[k].type = "Contents"
    /\ Len(output) >= 2

\* the dispatcher's loop has ended: try_recv found the queue empty
LoopEnded == qpc \in {"pool_join", "done"}

\* node n is a directory whose search read its listing
Expanded(n) ==
    /\ fs.kind[n] = "dir"
    /\ fs.fault[n] \notin {"metadata", "read_dir"}
    /\ Searched(PathOf(fs, n))

\* node n is an entry its parent's listing yields readable: neither it nor an
\* entry listed before it fails to be read
Listed(n) ==
    /\ fs.parent[n] # 0
    /\ \E i \in 1..Len(Listing(fs.parent[n])) : Listing(fs.parent[n])[i] = n
    /\ fs.fault[n] # "entry"

\* C13: items are enqueued only by a search (of main or of the dispatcher),
\* once per entry the listing of an expanded directory yields, never by a
\* job; from the moment the dispatcher's poll finds the queue empty the queue
\* stays empty, every item enqueued has been searched, and every entry the
\* listing of every expanded directory yielded had been enqueued.
C13_EmptyPollIsFinal ==
    /\ \A k \in 1..Len(enqueued) :
           \E n \in Nodes(fs) :
               /\ enqueued[k] = PathOf(fs, n)
               /\ Listed(n)
               /\ Expanded(fs.parent[n])
    /\ \A j, k \in 1..Len(enqueued) : enqueued[j] = enqueued[k] => j = k
    /\ LoopEnded =>
           /\ workQueue = <<>>
           /\ \A k \in 1..Len(enqueued) :
                  \E h \in 1..Len(history) :
                      history[h].by = "query_thread" /\ history[h].path = enqueued[k]
           /\ \A n \in Nodes(fs) :
                  (Listed(n) /\ Expanded(fs.parent[n]))
                      => \E k \in 1..Len(enqueued) : enqueued[k] = PathOf(fs, n)

\* the loop has ended with a job still running, after the dispatcher
\* expanded a directory itself
C13_Witness ==
    /\ qpc = "pool_join"
    /\ \E i \in 1..Len(tasks) : tasks[i].pc = "fold"
    /\ Len(enqueued) = 3
    /\ \E n \in Nodes(fs) : fs.parent[n] # 0 /\ Expanded(n)

\* the run has completed: the dispatcher found the queue empty and joined
\* the pool, every job has ended, the channel is closed and drained, the
\* reporter and then main have returned
RunCompleted ==
    /\ mainpc = "done"
    /\ qpc = "done"
    /\ rpc = "done"
    /\ workQueue = <<>>
    /\ \A i \in 1..Len(tasks) : tasks[i].pc = "done"
    /\ resultSenders = 0
    /\ resultChan = <<>>

\* C14 (as amended): under fair scheduling every run ends: either the seed's
\* own search fails and the process exits with status 1, or the run
\* completes; once main has called process_queries the run always completes,
\* no thread blocks forever.
C14_Terminates ==
    /\ <>(mainpc = "exit" \/ RunCompleted)
    /\ (mainpc = "process_queries") ~> RunCompleted

\* a run over two directories and two files has completed, one job failed
C14_Witness ==
    /\ RunCompleted
    /\ Len(tasks) = 2
    /\ \E r \in 1..Len(received) : received[r].type = "Error"

\* C14 as claimed: every run goes on until it has completed (the dispatcher
\* has found the queue empty, every job has finished, the channel has
\* closed, the reporter and main have returned): it never comes to a stop
\* before.
C14_Original == RunCompleted \/ ENABLED Next

\* C15: the dispatcher ends only after its poll found the queue empty and
\* every job submitted to the pool has finished; main passes the join of the
\* dispatcher only when the dispatcher has ended, and returns only when the
\* reporter has ended as well.
C15_CompletionOrder ==
    /\ LoopEnded => workQueue = <<>>
    /\ qpc = "done" => \A i \in 1..Len(tasks) : tasks[i].pc = "done"
    /\ mainpc \in {"join_result", "done"} => qpc = "done"
    /\ mainpc = "done" => rpc = "done"

\* main waits for the reporter, the dispatcher having joined two jobs
C15_Witness ==
    /\ mainpc = "join_result"
    /\ rpc = "recv"
    /\ Len(tasks) = 2

\* the results sent so far for path p, of one type
ResultsFor(p, type) == SelectSeq(sent, LAMBDA r : r.type = type /\ r.path = p)

\* C16: a job whose open or map fails sends, when it runs, exactly one
\* Error(FileIO, (path, query)) and never a Contents result; no second job
\* is made for the file; the jobs of the other files send no Error and,
\* once ended, exactly the positions of their own scan.
C16_FailedScan ==
    \A i \in 1..Len(tasks) :
        LET t == tasks[i]
            n == NodeAt(fs, t.path)
            errors == ResultsFor(t.path, "Error")
            matches == ResultsFor(ContentsPath(t.path), "Contents")
        IN  /\ \A j \in 1..Len(tasks) : tasks[j].path = t.path => j = i
            /\ IF ~is_ok(OpenAndMap(t.path))
               THEN /\ matches = <<>>
                    /\ Len(errors) = (IF t.pc = "done" THEN 1 ELSE 0)
                    /\ \A e \in 1..Len(errors) :
                           /\ errors[e].err.kind = "FileIO"
                           /\ errors[e].query = query
               ELSE /\ errors = <<>>
                    /\ t.pc = "done" =>
                           [k \in 1..Len(matches) |-> matches[k].pos]
                               = Matcher(fs.content[n], query)

\* a completed run with a job that failed and a job that sent a match
C16_Witness ==
    /\ mainpc = "done"
    /\ \E i, j \in 1..Len(tasks) :
           /\ ~is_ok(OpenAndMap(tasks[i].path))
           /\ ResultsFor(tasks[i].path, "Error") # <<>>
           /\ ResultsFor(ContentsPath(tasks[j].path), "Contents") # <<>>

\* the entries of directory n whose read fails, in listing order
FailedEntries(n) == SelectSeq(Children(fs, n), LAMBDA c : fs.fault[c] = "entry")

\* C17: the search of a directory whose listing was read has enqueued every
\* entry that can be read, those listed after a failed one included, and
\* returns Ok when no entry failed, otherwise one Aggregate of FileIO errors.
C17_PartialListing ==
    \A h \in 1..Len(history) :
        LET n == NodeAt(fs, history[h].path)
            ret == history[h].ret
            children == Children(fs, n)
        IN  Expanded(n) =>
                /\ \A i \in 1..Len(children) :
                       fs.fault[children[i]] # "entry" =>
                           \E k \in 1..Len(enqueued) :
                               enqueued[k] = PathOf(fs, children[i])
                /\ IF FailedEntries(n) = <<>>
                   THEN ret = Ok(Unit)
                   ELSE /\ ~is_ok(ret)
                        /\ ret.err.kind = "Aggregate"
                        /\ Len(ret.err.errs) >= 1
                        /\ \A e \in 1..Len(ret.err.errs) :
                               ret.err.errs[e].kind = "FileIO"

\* the fold visits a byte that differs from the query byte it is compared
\* with (query[m], m the counter after the reset that follows a match)
FoldMismatch ==
    /\ ~mDone
    /\ mAcc[2] < Len(mBytes)
    /\ Len(mQuery) > 0
    /\ mBytes[mAcc[2] + 1] # mQuery[(IF mAcc[1] >= Len(mQuery) THEN 0 ELSE mAcc[1]) + 1]

\* C18: the fold does not backtrack: a byte that mismatches the query byte
\* it is compared with leaves the counter at 0, even when it equals the
\* first query byte; so the scan of "aabx" for "ab" sends nothing although
\* "ab" occurs at [1, 3).
C18_NoBacktrack ==
    /\ [][FoldMismatch => mAcc'[1] = 0]_vars
    /\ []((mDone /\ mBytes = Str_aabx /\ mQuery = Str_ab) => mOut = <<>>)

C18_Witness ==
    /\ mDone
    /\ mBytes = Str_aabx
    /\ mQuery = Str_ab
    /\ SubSeq(mBytes, 2, 3) = mQuery
    /\ mOut = <<>>

\* search, the owner of tx, has not been dropped: neither by the dispatcher
\* at its end nor by main on a failed seed
TxAlive == qpc # "done" /\ mainpc # "exit"

RECURSIVE HasSendError(_)
\* e is a Send error or an Aggregate that holds one
HasSendError(e) ==
    \/ e.kind = "Send"
    \/ /\ e.kind = "Aggregate"
       /\ \E i \in 1..Len(e.errs) : HasSendError(e.errs[i])

\* C19: each Receiver outlives every Sender of its channel (result_receiver
\* is alive while a result sender is, rx while search, the owner of tx, has
\* not been dropped), so no send fails: no search returns a Send error or an
\* Aggregate of one, no Error result carries one, and no job logs a result
\* it could not send.
C19_SendsNeverFail ==
    /\ resultSenders > 0 => rrAlive
    /\ TxAlive => rxAlive
    /\ \A h \in 1..Len(history) :
           is_ok(history[h].ret) \/ ~HasSendError(history[h].ret.err)
    /\ \A r \in 1..Len(sent) :
           sent[r].type = "Error" => ~HasSendError(sent[r].err)
    /\ \A e \in 1..Len(errlog) :
           /\ errlog[e].what # "Could not handle"
           /\ errlog[e].what = "Unrecoverable error" => ~HasSendError(errlog[e].err)

\* a completed run that enqueued three items and sent results from the
\* dispatcher and from two jobs
C19_Witness ==
    /\ RunCompleted
    /\ Len(enqueued) = 3
    /\ Len(tasks) = 2
    /\ Len(sent) >= 4
    /\ ~rxAlive /\ ~rrAlive

\* C20 (as amended): with the empty query the counter of every job stays 0
\* and no Contents result is ever sent, while every searched directory and
\* every searched file (its metadata read) whose path is valid UTF-8 has a
\* Dir result, and one whose path is not valid UTF-8 has none.
C20_EmptyQuery ==
    query = <<>> =>
        /\ \A i \in 1..Len(tasks) : tasks[i].acc[1] = 0
        /\ \A r \in 1..Len(sent) : sent[r].type # "Contents"
        /\ \A h \in 1..Len(history) :
               fs.fault[NodeAt(fs, history[h].path)] # "metadata"
                   => Cardinality(DirResults(history[h].path))
                          = (IF Utf8Valid(history[h].path) THEN 1 ELSE 0)

\* a completed run with the empty query over a seed directory, which has its
\* Dir result, and a directory and a scanned file below it whose paths are
\* not UTF-8, which have none
C20_Witness ==
    /\ query = <<>>
    /\ mainpc = "done"
    /\ Len(history) = 3
    /\ \E h \in 1..Len(history) : ~Utf8Valid(history[h].path)
    /\ Len(tasks) = 1
    /\ tasks[1].acc[2] = 4
    /\ sent = <<Dir(SeedPath)>>

\* C20 as claimed: with the empty query no Contents result is ever sent and
\* every searched directory and every searched file (its metadata read) has
\* a Dir result.
C20_Original ==
    query = <<>> =>
        /\ \A i \in 1..Len(tasks) : tasks[i].acc[1] = 0
        /\ \A r \in 1..Len(sent) : sent[r].type # "Contents"
        /\ \A h \in 1..Len(history) :
               fs.fault[NodeAt(fs, history[h].path)] # "metadata"
                   => Cardinality(DirResults(history[h].path)) = 1

====
